---- MODULE Spec2Model ----
(***************************************************************************)
(* command_processor.py: a source Observable of commands is flat-mapped    *)
(* through process_command_timeout and the merged stream is subscribed.    *)
(* The model follows one or more subscriptions of process_commands(source) *)
(* handler by handler: the source's on_next / on_error / on_completed, the *)
(* worker call, each inner rx.of stream's on_next / on_completed, and the  *)
(* disposal of the handle that subscribe returns.                          *)
(***************************************************************************)
EXTENDS Naturals, Sequences, FiniteSets

\* Longest source sequence explored.
MaxItems == 3

\* How often the handle of one subscription is invoked at most.
MaxCancels == 2

\* Longest source sequence over the wider set of command strings.
MaxCommands == 2
MaxShared == 1

\* ------------------------------------------------------------------ values

\* A source item: a Python str, or a value that is no str (None).
Str(t) == [isStr |-> TRUE, s |-> t]
NoneItem == [isStr |-> FALSE, s |-> ""]

Items == {Str("echo before"), Str("sleep"), Str("echo after"), Str("bogus"), NoneItem}

\* Notifications (rx.core.notification: OnNext, OnError, OnCompleted).
OnNext(v) == [kind |-> "N", val |-> v]
OnError(e) == [kind |-> "E", val |-> e]
OnCompleted == [kind |-> "C", val |-> ""]

IsTerminal(n) == n.kind \in {"E", "C"}

\* str.startswith
startswith(s, prefix) ==
    /\ Len(s) >= Len(prefix)
    /\ SubSeq(s, 1, Len(prefix)) = prefix

\* What a call of the worker does: raise, or (after blocking in time.sleep for
\* "sleep") return rx.of(value).  `of` is the argument list of rx.of.
Raises(e) == [raises |-> TRUE, err |-> e, blocks |-> FALSE, of |-> <<>>]
Returns(blocks, values) == [raises |-> FALSE, err |-> "", blocks |-> blocks, of |-> values]

\* Variant: the command words are compared for equality, not as prefixes.
process_command_exact(cmd) ==
    IF ~cmd.isStr THEN Raises("AttributeError")
    ELSE IF cmd.s = "echo" THEN Returns(FALSE, <<cmd.s>>)
    ELSE IF cmd.s = "sleep" THEN Returns(TRUE, <<"awake">>)
    ELSE Returns(FALSE, <<"Invalid command " \o cmd.s \o " provided.">>)

process_command(cmd) ==
    IF ~cmd.isStr THEN Raises("AttributeError")
    ELSE IF startswith(cmd.s, "echo") THEN Returns(FALSE, <<cmd.s>>)
    ELSE IF startswith(cmd.s, "sleep") THEN Returns(TRUE, <<"awake">>)
    ELSE Returns(FALSE, <<"Invalid command " \o cmd.s \o " provided.">>)

\* Variant: a worker call that would block is given up with an error.
process_command_timeout_expiring(cmd) ==
    IF process_command(cmd).blocks THEN Raises("TimeoutError")
    ELSE process_command(cmd)

process_command_timeout(cmd) == process_command(cmd)

\* Notification.accept: calls the handler of the notification's variant.
\* `called` lists the handlers invoked, `result` is what accept returns.
\* A handler is a function of the payload; on_completed takes none.
accept(notif, handlers) ==
    CASE notif.kind = "N" ->
           [called |-> <<"on_next">>, result |-> handlers.on_next[notif.val]]
      [] notif.kind = "E" ->
           [called |-> <<"on_error">>, result |-> handlers.on_error[notif.val]]
      [] notif.kind = "C" ->
           [called |-> <<"on_completed">>, result |-> handlers.on_completed]

ErrorMessage == "Your command could not be processed. Please try again."
CompletedMessage == "No more commands to process. Shutting down!"

\* Variant: on_error hands back the cause it was given.
process_errors_raw_cause(notif) ==
    accept(notif,
           [on_next |-> [x \in STRING |-> x],
            on_error |-> [err \in STRING |-> err],
            on_completed |-> CompletedMessage])

process_errors(notif) ==
    accept(notif,
           [on_next |-> [x \in STRING |-> x],
            on_error |-> [err \in STRING |-> ErrorMessage],
            on_completed |-> CompletedMessage])

\* --------------------------------------------------- subscription state

\* The consumers that may subscribe to the Observable process_commands returns.
Subs == {1, 2}

\* The handle of the source subscription inside the flat_map's group (its
\* inner subscriptions are numbered 1, 2, ... in the order they are made).
m == 0

VARIABLES
    script,       \* the items the source Observable emits, in order
    srcEnd,       \* how the source ends after them: "completed" or "error"
    sched,        \* "current_thread": rx.of source run by the subscribing
                  \*   thread's trampoline; "concurrent": source and inner
                  \*   streams run in execution contexts of their own
    subscribers,  \* the consumers that subscribe
    subs,         \* per subscription: the state that subscribe() allocates
    notifs,       \* notifications still to be given to process_errors
    reduced       \* the applications of process_errors made so far

vars == <<script, srcEnd, sched, subscribers, subs, notifs, reduced>>

\* State of a subscription before subscribe() and right after it.
Unsubscribed ==
    [phase |-> "unsubscribed",
     srcPos |-> 0,            \* source items emitted so far
     sleeping |-> FALSE,      \* the worker is inside time.sleep
     srcStopped |-> FALSE,    \* the source subscription's observer is stopped
     is_stopped |-> FALSE,    \* flat_map: the source has completed
     completing |-> FALSE,    \* flat_map: the source's on_completed has set
                              \*   is_stopped and has yet to look at the group
     group |-> {},            \* flat_map: open handles (m and inner ones)
     groupDisposed |-> FALSE,
     inner |-> <<>>,          \* inner streams: [of, pos, st]
     obsStopped |-> FALSE,    \* the consumer's observer is stopped
     delivered |-> <<>>,      \* notifications handed to the consumer's observer
     printed |-> <<>>,        \* what print received
     invoked |-> <<>>,        \* items the worker was called with
     escaped |-> FALSE,       \* an exception left the pipeline uncaught
     cancels |-> 0]           \* invocations of the handle subscribe returned

Subscribed == [Unsubscribed EXCEPT !.phase = "subscribed", !.group = {m}]

\* -------------------------------------------------------------- handlers

\* Disposing an inner subscription: its observer stops, its scheduled
\* emission is cancelled.
dispose_inner(inn) ==
    IF inn.st = "open" THEN [inn EXCEPT !.st = "disposed"] ELSE inn

\* Variant: the group disposes the source subscription, not the inner ones.
group_dispose_source_only(st) ==
    IF st.groupDisposed THEN st
    ELSE [st EXCEPT !.groupDisposed = TRUE, !.group = {}, !.srcStopped = TRUE]

\* CompositeDisposable.dispose of the flat_map's group: once; disposes the
\* source subscription and every inner subscription still in the group.
group_dispose(st) ==
    IF st.groupDisposed THEN st
    ELSE [st EXCEPT !.groupDisposed = TRUE,
                    !.group = {},
                    !.srcStopped = TRUE,
                    !.inner = [i \in DOMAIN st.inner |->
                                 IF i \in st.group THEN dispose_inner(st.inner[i])
                                 ELSE st.inner[i]]]

\* Variant: disposing a disposed observer raises.
observer_dispose_once(st) ==
    IF st.obsStopped /\ st.groupDisposed THEN [st EXCEPT !.escaped = TRUE]
    ELSE group_dispose([st EXCEPT !.obsStopped = TRUE])

\* The consumer's observer (what subscribe(print) builds around print): it
\* hands on notifications until it is stopped, and a terminal one stops and
\* disposes it.  `delivered` records what it hands on; print is its on_next
\* handler alone, so `printed` holds the values of the Next notifications.
observer_dispose(st) ==
    group_dispose([st EXCEPT !.obsStopped = TRUE])

observer_on_next(st, v) ==
    IF st.obsStopped THEN st
    ELSE [st EXCEPT !.delivered = Append(@, OnNext(v)),
                    !.printed = Append(@, v)]

\* Variant: an observer that hands on an error without stopping.
observer_on_error_not_stopping(st, e) ==
    [st EXCEPT !.delivered = Append(@, OnError(e))]

observer_on_error(st, e) ==
    IF st.obsStopped THEN st
    ELSE observer_dispose([st EXCEPT !.delivered = Append(@, OnError(e))])

observer_on_completed(st) ==
    IF st.obsStopped THEN st
    ELSE observer_dispose([st EXCEPT !.delivered = Append(@, OnCompleted)])

\* Variant: a new inner Observable is subscribed ahead of the earlier ones.
merge_on_next_front(st, values) ==
    [st EXCEPT !.inner = <<[of |-> values, pos |-> 0,
                            st |-> IF st.groupDisposed THEN "disposed"
                                   ELSE "open"]>> \o @,
               !.group = IF st.groupDisposed THEN @ ELSE @ \cup {Len(st.inner) + 1}]

\* flat_map, source side: a new inner Observable is added to the group and
\* subscribed.
merge_on_next(st, values) ==
    LET i == Len(st.inner) + 1
    IN  [st EXCEPT !.inner = Append(@, [of |-> values, pos |-> 0,
                                        st |-> IF st.groupDisposed THEN "disposed"
                                               ELSE "open"]),
                   !.group = IF st.groupDisposed THEN @ ELSE @ \cup {i}]

\* Variant: the source's completion completes the merged stream at once.
merge_on_completed_at_once(st) ==
    observer_on_completed([st EXCEPT !.completing = FALSE])

\* flat_map, source side: the source has completed.  The handler sets
\* is_stopped and then looks at the group; it takes no lock, so that handlers
\* of inner streams can run between the two.  This is its second half.
merge_on_completed(st) ==
    LET s1 == [st EXCEPT !.completing = FALSE]
    IN  IF Cardinality(s1.group) = 1 THEN observer_on_completed(s1) ELSE s1

\* flat_map, inner side.
inner_on_next(st, i) ==
    LET inn == st.inner[i]
    IN  observer_on_next([st EXCEPT !.inner[i].pos = @ + 1], inn.of[inn.pos + 1])

\* Variant: the last open inner stream completes the merged stream whether or
\* not the source has completed.
inner_on_completed_ignoring_source(st, i) ==
    LET s1 == [st EXCEPT !.group = @ \ {i}, !.inner[i].st = "completed"]
    IN  IF Cardinality(s1.group) = 1 THEN observer_on_completed(s1) ELSE s1

\* Variant: an inner stream's completion never completes the merged stream.
inner_on_completed_silent(st, i) ==
    [st EXCEPT !.group = @ \ {i}, !.inner[i].st = "completed"]

\* Variant: the inner side looks at the group before it removes its handle.
inner_on_completed_stale_check(st, i) ==
    LET s1 == [st EXCEPT !.group = @ \ {i}, !.inner[i].st = "completed"]
    IN  IF st.is_stopped /\ Cardinality(st.group) = 1
        THEN observer_on_completed(s1) ELSE s1

\* Variant: an inner stream's completion disposes the whole group.
inner_on_completed_disposing_group(st, i) ==
    group_dispose([st EXCEPT !.inner[i].st = "completed"])

\* Variant: a completed inner stream's handle stays in the group.
inner_on_completed_keeping_handle(st, i) ==
    LET s1 == [st EXCEPT !.inner[i].st = "completed"]
    IN  IF s1.is_stopped /\ Cardinality(s1.group) = 1
        THEN observer_on_completed(s1) ELSE s1

inner_on_completed(st, i) ==
    LET s1 == [st EXCEPT !.group = @ \ {i}, !.inner[i].st = "completed"]
    IN  IF s1.is_stopped /\ Cardinality(s1.group) = 1
        THEN observer_on_completed(s1) ELSE s1

\* Variant: the source subscription's observer hands on items after it has
\* been stopped.
upstream_on_next_unguarded(st, values) ==
    merge_on_next(st, values)

\* The observer the flat_map subscribes to its source with.
upstream_on_next(st, values) ==
    IF st.srcStopped THEN st ELSE merge_on_next(st, values)

\* Variant: an error ends the source subscription and is not handed on.
upstream_on_error_swallowed(st, e) ==
    IF st.srcStopped THEN st ELSE [st EXCEPT !.srcStopped = TRUE]

upstream_on_error(st, e) ==
    IF st.srcStopped THEN st
    ELSE observer_on_error([st EXCEPT !.srcStopped = TRUE], e)

\* The source's on_completed, first half: the observer stops and flat_map
\* sets is_stopped.
upstream_on_completed(st) ==
    IF st.srcStopped THEN st
    ELSE [st EXCEPT !.srcStopped = TRUE, !.is_stopped = TRUE, !.completing = TRUE]

\* Variant: an exception of the worker is not caught.
map_result_uncaught(st, r) ==
    IF r.raises THEN [st EXCEPT !.escaped = TRUE]
    ELSE upstream_on_next(st, r.of)

\* flat_map's mapping step once the worker call has ended with outcome r: an
\* exception of the worker is caught and sent on as on_error.
map_result(st, r) ==
    IF r.raises THEN upstream_on_error(st, r.err)
    ELSE upstream_on_next(st, r.of)

\* --------------------------------------------------------------- actions

SeqsUpTo(S, n) == UNION {[1..k -> S] : k \in 0..n}

\* The source sequences explored; those of two subscriptions are shorter.
Scripts == SeqsUpTo(Items, MaxItems)

InitCommon ==
    /\ srcEnd \in {"completed", "error"}
    /\ sched \in {"current_thread", "concurrent"}
    /\ sched = "current_thread" => srcEnd = "completed"
    /\ subs = [s \in Subs |-> Unsubscribed]
    /\ notifs = <<>>
    /\ reduced = <<>>

\* process_commands(source) has been built; nobody has subscribed yet.
Init ==
    /\ script \in Scripts
    /\ subscribers = {1}
    /\ InitCommon

\* Variant: the subscriptions made share one state.
Set_shared(s, st) ==
    subs' = [u \in Subs |->
               IF u = s \/ subs[u].phase = "subscribed" THEN st ELSE subs[u]]

Set(s, st) == subs' = [subs EXCEPT ![s] = st]

Env == UNCHANGED <<script, srcEnd, sched, subscribers, notifs, reduced>>

\* Variant: after the source's emission the inner emissions run in any order.
MayRunInner_unordered(st, i) ==
    sched = "concurrent" \/ st.srcStopped

\* Under the trampoline of one thread the source's emission runs to its end
\* before the first inner emission, and the inner emissions run in the order
\* in which they were scheduled.
MayRunInner(st, i) ==
    \/ sched = "concurrent"
    \/ /\ st.srcStopped
       /\ ~st.completing
       /\ \A j \in 1..(i - 1) : st.inner[j].st # "open"

\* .subscribe(print)
Subscribe(s) ==
    /\ s \in subscribers
    /\ subs[s].phase = "unsubscribed"
    /\ Set(s, Subscribed)
    /\ Env

\* Variant: the source goes on emitting while the worker is blocked.
SourceLive_unblocked(st) ==
    /\ st.phase = "subscribed"
    /\ ~st.srcStopped

SourceLive(st) ==
    /\ st.phase = "subscribed"
    /\ ~st.srcStopped
    /\ ~st.sleeping

\* The source emits its next item: the worker is called with it and, unless
\* the call blocks, its result is merged.
SourceNext(s) ==
    LET st == subs[s] IN
    /\ SourceLive(st)
    /\ st.srcPos < Len(script)
    /\ LET cmd == script[st.srcPos + 1]
           r == process_command_timeout(cmd)
           s1 == [st EXCEPT !.srcPos = @ + 1, !.invoked = Append(@, cmd)]
       IN  Set(s, IF r.blocks THEN [s1 EXCEPT !.sleeping = TRUE]
                  ELSE map_result(s1, r))
    /\ Env

\* time.sleep returns and the worker call ends.
WorkerReturn(s) ==
    LET st == subs[s] IN
    /\ st.sleeping
    /\ Set(s, map_result([st EXCEPT !.sleeping = FALSE],
                         process_command_timeout(script[st.srcPos])))
    /\ Env

SourceCompleted(s) ==
    LET st == subs[s] IN
    /\ SourceLive(st)
    /\ st.srcPos = Len(script)
    /\ srcEnd = "completed"
    /\ Set(s, upstream_on_completed(st))
    /\ Env

\* The source's on_completed looks at the group.
SourceCompletedCheck(s) ==
    LET st == subs[s] IN
    /\ st.completing
    /\ Set(s, merge_on_completed(st))
    /\ Env

SourceError(s) ==
    LET st == subs[s] IN
    /\ SourceLive(st)
    /\ st.srcPos = Len(script)
    /\ srcEnd = "error"
    /\ Set(s, upstream_on_error(st, "SourceError"))
    /\ Env

\* An inner rx.of stream emits its next value ...
InnerNext(s, i) ==
    LET st == subs[s] IN
    /\ i \in DOMAIN st.inner
    /\ st.inner[i].st = "open"
    /\ st.inner[i].pos < Len(st.inner[i].of)
    /\ MayRunInner(st, i)
    /\ Set(s, inner_on_next(st, i))
    /\ Env

\* ... and, its values exhausted, completes.
InnerCompleted(s, i) ==
    LET st == subs[s] IN
    /\ i \in DOMAIN st.inner
    /\ st.inner[i].st = "open"
    /\ st.inner[i].pos = Len(st.inner[i].of)
    /\ MayRunInner(st, i)
    /\ Set(s, inner_on_completed(st, i))
    /\ Env

\* The handle subscribe returned is invoked.  A subscription run by the
\* subscribing thread's trampoline has ended before subscribe returns.
Dispose(s) ==
    LET st == subs[s] IN
    /\ st.phase = "subscribed"
    /\ sched = "concurrent" \/ st.obsStopped
    /\ st.cancels < MaxCancels
    /\ Set(s, observer_dispose([st EXCEPT !.cancels = @ + 1]))
    /\ Env

Next ==
    \E s \in Subs :
        \/ Subscribe(s)
        \/ SourceNext(s)
        \/ WorkerReturn(s)
        \/ SourceCompleted(s)
        \/ SourceCompletedCheck(s)
        \/ SourceError(s)
        \/ \E i \in 1..MaxItems : InnerNext(s, i)
        \/ \E i \in 1..MaxItems : InnerCompleted(s, i)
        \/ Dispose(s)

Spec == Init /\ [][Next]_vars

\* Command strings around the prefixes that process_command tells apart.
Commands ==
    {Str("echo before"), Str("echo"), Str("echoes"), Str("ech"), Str("Echo x"),
     Str(" echo x"), Str("sleep"), Str("sleep 5"), Str("slee"), Str("bogus"),
     Str("")}

\* process_commands(source) for sources of these command strings.
InitCommands ==
    /\ script \in SeqsUpTo(Commands, MaxCommands)
    /\ subscribers = {1}
    /\ InitCommon

SpecCommands == InitCommands /\ [][Next]_vars

\* Sources of "echo" and "sleep" commands, every step that can be taken being
\* taken eventually: the sleep ends, scheduled emissions run.  The consumer is
\* not bound to invoke its handle.
InitLive ==
    /\ script \in SeqsUpTo({Str("echo before"), Str("sleep")}, MaxItems)
    /\ subscribers = {1}
    /\ InitCommon

Progress ==
    \E s \in Subs :
        \/ Subscribe(s)
        \/ SourceNext(s)
        \/ WorkerReturn(s)
        \/ SourceCompleted(s)
        \/ SourceCompletedCheck(s)
        \/ SourceError(s)
        \/ \E i \in 1..MaxItems : InnerNext(s, i)
        \/ \E i \in 1..MaxItems : InnerCompleted(s, i)

SpecLive == InitLive /\ [][Next]_vars /\ WF_vars(Progress)

\* Two consumers subscribe to the one Observable process_commands returned,
\* in any order and at any time of each other's run.
InitShared ==
    /\ script \in SeqsUpTo({Str("echo before"), Str("sleep"), NoneItem}, MaxShared)
    /\ subscribers = Subs
    /\ InitCommon

SpecShared == InitShared /\ [][Next]_vars

\* ------------------------------------------------------- process_errors

\* The values that the workers of Items emit.
Payloads == UNION {{r.of[k] : k \in DOMAIN r.of} : r \in {process_command(c) : c \in Items}}

Notifications ==
    {OnNext(v) : v \in Payloads}
        \cup {OnError(e) : e \in {"AttributeError", "SourceError"}}
        \cup {OnCompleted}

\* A caller holds a sequence of notifications and no subscription is made.
InitReduce ==
    /\ notifs \in SeqsUpTo(Notifications, MaxItems)
    /\ reduced = <<>>
    /\ script = <<>>
    /\ srcEnd = "completed"
    /\ sched = "current_thread"
    /\ subscribers = {}
    /\ subs = [s \in Subs |-> Unsubscribed]

\* process_errors is applied to the next notification.
ProcessErrors ==
    /\ notifs # <<>>
    /\ reduced' = Append(reduced, [notif |-> Head(notifs),
                                   out |-> process_errors(Head(notifs))])
    /\ notifs' = Tail(notifs)
    /\ UNCHANGED <<script, srcEnd, sched, subscribers, subs>>

NextReduce == ProcessErrors

SpecReduce == InitReduce /\ [][NextReduce]_vars

\* ------------------------------------------------------------ properties

Last(seq) == seq[Len(seq)]

\* The payloads of the Next notifications of a delivered sequence, in order.
RECURSIVE NextPayloads(_)
NextPayloads(d) ==
    IF d = <<>> THEN <<>>
    ELSE IF Head(d).kind = "N" THEN <<Head(d).val>> \o NextPayloads(Tail(d))
    ELSE NextPayloads(Tail(d))

\* The values the workers of a sequence of items emit, in the items' order.
RECURSIVE WorkerOutputs(_)
WorkerOutputs(S) ==
    IF S = <<>> THEN <<>>
    ELSE process_command_timeout(Head(S)).of \o WorkerOutputs(Tail(S))

Count(seq, v) == Cardinality({k \in DOMAIN seq : seq[k] = v})

SameBag(a, b) ==
    /\ Len(a) = Len(b)
    /\ \A k \in DOMAIN a : Count(a, a[k]) = Count(b, a[k])

IsPrefix(a, b) == Len(a) <= Len(b) /\ SubSeq(b, 1, Len(a)) = a

Has(d, kind) == \E k \in DOMAIN d : d[k].kind = kind

OpenInner(st) == {i \in DOMAIN st.inner : st.inner[i].st = "open"}

\* C1: the notifications delivered to a consumer hold at most one terminal
\* event (Error or Completed, never both) and nothing after it.
C1_TerminalUnique ==
    \A s \in Subs :
        LET d == subs[s].delivered
        IN  \A k \in DOMAIN d : IsTerminal(d[k]) => k = Len(d)

\* C1 witness: an Error ended a stream that had delivered a Next, while an
\* inner stream that had not emitted yet was still open.
C1_Witness ==
    \E s \in Subs :
        LET st == subs[s]
        IN  /\ Len(st.delivered) >= 2
            /\ Last(st.delivered).kind = "E"
            /\ \E i \in DOMAIN st.inner :
                 st.inner[i].st = "disposed" /\ st.inner[i].pos = 0

\* C2: Completed has been delivered only if the source has completed and
\* every inner subscription made has completed, none being open or cancelled;
\* and it is delivered at most once.
C2_CompletedOnlyWhenAllDone ==
    \A s \in Subs :
        LET st == subs[s]
        IN  Has(st.delivered, "C") =>
              /\ srcEnd = "completed"
              /\ st.srcPos = Len(script)
              /\ ~st.sleeping
              /\ st.is_stopped
              /\ Len(st.inner) = Len(st.invoked)
              /\ \A i \in DOMAIN st.inner :
                   /\ st.inner[i].st = "completed"
                   /\ st.inner[i].pos = Len(st.inner[i].of)
              /\ Count(st.delivered, OnCompleted) = 1

\* C2 witness: Completed was delivered by the completion of the last of
\* several inner streams, after the source had completed.
C2_Witness ==
    \E s \in Subs :
        LET st == subs[s]
        IN  /\ Has(st.delivered, "C")
            /\ Len(st.inner) >= 2
            /\ sched = "concurrent"
            /\ NextPayloads(st.delivered) # WorkerOutputs(script)

\* Every worker call for the items of S returns an Observable.
AllWorkersReturn(S) == \A k \in DOMAIN S : ~process_command_timeout(S[k]).raises

\* Nothing is left to run in a subscription.
Quiescent(st) ==
    /\ st.phase = "subscribed"
    /\ st.srcStopped
    /\ ~st.sleeping
    /\ ~st.completing
    /\ OpenInner(st) = {}

\* C3: with a source of(S) whose workers all return a stream of one Next and
\* Completed, the Next payloads delivered are the worker outputs of S, one
\* per item, none missing, extra or duplicated, ended by exactly one Completed.
C3_ExactlyTheWorkerOutputs ==
    \A s \in Subs :
        LET st == subs[s]
            d == st.delivered
            out == WorkerOutputs(script)
        IN  (srcEnd = "completed" /\ AllWorkersReturn(script) /\ st.cancels = 0) =>
              /\ ~Has(d, "E")
              /\ \A k \in DOMAIN d :
                   d[k].kind = "N" =>
                     Count(NextPayloads(d), d[k].val) <= Count(out, d[k].val)
              /\ Quiescent(st) => Has(d, "C")
              /\ Has(d, "C") =>
                   /\ SameBag(NextPayloads(d), out)
                   /\ Last(d) = OnCompleted
                   /\ Count(d, OnCompleted) = 1
                   /\ Len(d) = Len(script) + 1

\* C3 witness: three items, one of them twice, were processed to Completed
\* with the deliveries in another order than the items.
C3_Witness ==
    \E s \in Subs :
        LET st == subs[s]
        IN  /\ Len(script) = 3
            /\ \E j, k \in DOMAIN script : j # k /\ script[j] = script[k]
            /\ AllWorkersReturn(script)
            /\ st.cancels = 0
            /\ Has(st.delivered, "C")
            /\ NextPayloads(st.delivered) # WorkerOutputs(script)

ReferenceInput == <<Str("echo before"), Str("sleep"), Str("echo after")>>

\* C4: when the inner streams are run as rx.of runs them for the program's
\* subscription (at once, in the order of their subscription), the Next
\* payloads are delivered in the order of the source items; for the reference
\* input they are "echo before", "awake", "echo after".
C4_SourceOrder ==
    \A s \in Subs :
        LET st == subs[s]
            d == st.delivered
        IN  (sched = "current_thread" /\ AllWorkersReturn(script)) =>
              /\ IsPrefix(NextPayloads(d), WorkerOutputs(script))
              /\ Has(d, "C") => NextPayloads(d) = WorkerOutputs(script)
              /\ (Has(d, "C") /\ script = ReferenceInput) =>
                   st.printed = <<"echo before", "awake", "echo after">>

\* C4 witness: the reference input has been processed to Completed.
C4_Witness ==
    \E s \in Subs :
        /\ sched = "current_thread"
        /\ script = ReferenceInput
        /\ Has(subs[s].delivered, "C")
        /\ Len(subs[s].printed) = 3

\* The step of s, from st to st2, delivers the Error e as the terminal event
\* and leaves nothing open; no inner stream advances in it.
FailFast(st, st2, e) ==
    /\ st2.delivered = Append(st.delivered, OnError(e))
    /\ st2.obsStopped
    /\ st2.srcStopped
    /\ OpenInner(st2) = {}
    /\ \A i \in DOMAIN st.inner : st2.inner[i].pos = st.inner[i].pos

\* The next source item makes the worker raise.
RaisesNext(st) ==
    /\ st.srcPos < Len(script)
    /\ process_command_timeout(script[st.srcPos + 1]).raises

\* C5: an Error of the source, or of the worker for one item, while inner
\* streams are open is delivered as that Error and as the single terminal
\* event; after it no Next of a still-open inner stream and no Completed is
\* delivered.
C5_FailFast ==
    /\ [][\A s \in Subs :
            /\ SourceError(s) => FailFast(subs[s], subs'[s], "SourceError")
            /\ (SourceNext(s) /\ RaisesNext(subs[s])) =>
                 FailFast(subs[s], subs'[s], "AttributeError")]_vars
    /\ [](\A s \in Subs :
            LET st == subs[s]
                d == st.delivered
            IN  Has(d, "E") =>
                  /\ Last(d).kind = "E"
                  /\ ~Has(d, "C")
                  /\ Cardinality({k \in DOMAIN d : d[k].kind = "E"}) = 1
                  /\ OpenInner(st) = {}
                  /\ Len(NextPayloads(d)) <= Len(st.inner))

\* C5 witness: the source's Error ended the stream while one inner stream had
\* completed and another, still open, had not emitted.
C5_Witness ==
    \E s \in Subs :
        LET st == subs[s]
        IN  /\ st.delivered # <<>>
            /\ Last(st.delivered) = OnError("SourceError")
            /\ \E i \in DOMAIN st.inner : st.inner[i].st = "completed"
            /\ \E i \in DOMAIN st.inner :
                 st.inner[i].st = "disposed" /\ st.inner[i].pos = 0

\* The worker has raised for an item of this subscription.
WorkerRaised(st) ==
    \E k \in DOMAIN st.invoked : process_command_timeout(st.invoked[k]).raises

\* C6: when the worker raises for an item, no exception leaves the pipeline:
\* the failure is delivered as the Error that ends the merged stream, the
\* worker is not called again, and no Next is delivered for an item whose
\* inner subscription had not completed by then.
C6_WorkerRaiseBecomesError ==
    /\ [](\A s \in Subs :
            LET st == subs[s]
                d == st.delivered
            IN  /\ ~st.escaped
                /\ WorkerRaised(st) =>
                     /\ d # <<>>
                     /\ Last(d) = OnError("AttributeError")
                     /\ \A k \in 1..(Len(d) - 1) : d[k].kind = "N"
                     /\ process_command_timeout(Last(st.invoked)).raises
                     /\ Len(st.inner) = Len(st.invoked) - 1
                     /\ OpenInner(st) = {}
                     /\ st.srcStopped)
    /\ [][\A s \in Subs :
            /\ WorkerRaised(subs[s]) => subs'[s].delivered = subs[s].delivered
            /\ (SourceNext(s) /\ RaisesNext(subs[s])) =>
                 FailFast(subs[s], subs'[s], "AttributeError")]_vars

\* C6 witness: the worker raised for the third item; the first item's Next
\* had been delivered, the second item's inner stream was cancelled unheard.
C6_Witness ==
    \E s \in Subs :
        LET st == subs[s]
        IN  /\ Len(st.invoked) = 3
            /\ WorkerRaised(st)
            /\ Len(st.delivered) = 2
            /\ st.inner[1].st = "completed"
            /\ st.inner[2].st = "disposed" /\ st.inner[2].pos = 0

\* C7: invoking the handle that subscribe returned, in any state, cancels the
\* source subscription and every open inner subscription, and no notification
\* is delivered to the consumer from then on.
C7_CancelStopsDelivery ==
    /\ [](\A s \in Subs :
            LET st == subs[s]
            IN  st.cancels > 0 =>
                  /\ st.obsStopped
                  /\ st.srcStopped
                  /\ st.group = {}
                  /\ OpenInner(st) = {})
    /\ [][\A s \in Subs :
            /\ subs[s].cancels > 0 =>
                 /\ subs'[s].delivered = subs[s].delivered
                 /\ subs'[s].printed = subs[s].printed
                 /\ Len(subs'[s].inner) = Len(subs[s].inner)
            /\ Dispose(s) =>
                 /\ subs'[s].delivered = subs[s].delivered
                 /\ \A i \in OpenInner(subs[s]) : subs'[s].inner[i].st = "disposed"]_vars

\* C7 witness: the handle was invoked while the source had items left, one
\* inner stream had emitted without completing and another had not emitted.
C7_Witness ==
    \E s \in Subs :
        LET st == subs[s]
        IN  /\ st.cancels > 0
            /\ st.srcPos < Len(script)
            /\ ~Has(st.delivered, "E") /\ ~Has(st.delivered, "C")
            /\ \E i \in DOMAIN st.inner :
                 st.inner[i].st = "disposed" /\ st.inner[i].pos = 1
            /\ \E i \in DOMAIN st.inner :
                 st.inner[i].st = "disposed" /\ st.inner[i].pos = 0

\* C8: a second or later invocation of the handle, also after the stream has
\* ended, changes nothing in the subscription (but the count of invocations
\* that the model keeps) and raises nothing.
C8_CancelIdempotent ==
    [][\A s \in Subs :
         (Dispose(s) /\ subs[s].cancels >= 1) =>
            /\ [subs'[s] EXCEPT !.cancels = 0] = [subs[s] EXCEPT !.cancels = 0]
            /\ ~subs'[s].escaped]_vars

\* C8 witness: the handle has been invoked twice, the first time with inner
\* streams open.
C8_Witness ==
    \E s \in Subs :
        LET st == subs[s]
        IN  /\ st.cancels >= 2
            /\ ~Has(st.delivered, "E") /\ ~Has(st.delivered, "C")
            /\ \E i \in DOMAIN st.inner : st.inner[i].st = "disposed"

\* C9: end to end, for a command list whose workers all complete normally,
\* the consumer receives the worker results of every command and then, as the
\* last value and once, "No more commands to process. Shutting down!".
C9_ShutdownMessageLast ==
    \A s \in Subs :
        LET st == subs[s]
            p == st.printed
        IN  (/\ srcEnd = "completed"
             /\ script # <<>>
             /\ AllWorkersReturn(script)
             /\ Has(st.delivered, "C")) =>
              /\ p # <<>>
              /\ Last(p) = "No more commands to process. Shutting down!"
              /\ SameBag(SubSeq(p, 1, Len(p) - 1), WorkerOutputs(script))

\* C10: process_errors calls exactly one handler, once, that of the
\* notification's variant, and returns its result: the value of a Next, the
\* fixed advisory message for an Error whatever its cause, the fixed shutdown
\* message for Completed.
C10_TotalDispatch ==
    \A k \in DOMAIN reduced :
        LET n == reduced[k].notif
            o == reduced[k].out
        IN  /\ Len(o.called) = 1
            /\ n.kind = "N" => o.called = <<"on_next">> /\ o.result = n.val
            /\ n.kind = "E" =>
                 /\ o.called = <<"on_error">>
                 /\ o.result = "Your command could not be processed. Please try again."
            /\ n.kind = "C" =>
                 /\ o.called = <<"on_completed">>
                 /\ o.result = "No more commands to process. Shutting down!"

\* C10 witness: process_errors has been applied to a Next, to an Error and to
\* Completed.
C10_Witness ==
    /\ \E k \in DOMAIN reduced : reduced[k].notif = OnNext("awake")
    /\ \E k \in DOMAIN reduced : reduced[k].notif = OnError("AttributeError")
    /\ \E k \in DOMAIN reduced : reduced[k].notif = OnCompleted

\* The payload the claim gives for a command string.
ExpectedPayload(c) ==
    CASE c = "echo before" -> "echo before"
      [] c = "echo after" -> "echo after"
      [] c = "echo" -> "echo"
      [] c = "echoes" -> "echoes"
      [] c = "ech" -> "Invalid command ech provided."
      [] c = "Echo x" -> "Invalid command Echo x provided."
      [] c = " echo x" -> "Invalid command  echo x provided."
      [] c = "sleep" -> "awake"
      [] c = "sleep 5" -> "awake"
      [] c = "slee" -> "Invalid command slee provided."
      [] c = "bogus" -> "Invalid command bogus provided."
      [] c = "" -> "Invalid command  provided."

\* C11: for every command string process_command returns an Observable that
\* emits one Next and then Completed, never an Error: the command itself when
\* it starts with "echo", "awake" when it starts with "sleep", and "Invalid
\* command <cmd> provided." otherwise.
C11_OneNextPerCommand ==
    \A s \in Subs :
        LET st == subs[s]
        IN  /\ ~WorkerRaised(st)
            /\ ~Has(st.delivered, "E") \/ srcEnd = "error"
            /\ (~st.sleeping /\ st.cancels = 0) => Len(st.inner) = Len(st.invoked)
            /\ \A i \in DOMAIN st.inner :
                 /\ st.inner[i].of = <<ExpectedPayload(st.invoked[i].s)>>
                 /\ st.inner[i].pos <= 1
                 /\ st.inner[i].st = "completed" => st.inner[i].pos = 1
            /\ \A k \in DOMAIN st.delivered :
                 st.delivered[k].kind = "N" =>
                   \E i \in DOMAIN st.inner :
                     st.delivered[k].val = ExpectedPayload(st.invoked[i].s)

\* C11 witness: the streams of "sleep 5" and "echoes" have emitted and
\* completed.
C11_Witness ==
    \E s \in Subs :
        LET st == subs[s]
        IN  /\ st.invoked = <<Str("sleep 5"), Str("echoes")>>
            /\ \A i \in 1..2 : st.inner[i].st = "completed"
            /\ Has(st.delivered, "C")
            /\ st.printed \in {<<"awake", "echoes">>, <<"echoes", "awake">>}

\* C12: with a blocking worker among the commands and every enabled step
\* eventually taken, the Next of every command ("awake" for "sleep") is
\* eventually delivered and the merged stream eventually reaches Completed,
\* whatever the order of the deliveries; unless the consumer cancels.
C12_EventuallyCompleted ==
    <>(\A s \in subscribers :
         LET st == subs[s]
         IN  \/ srcEnd # "completed"
             \/ st.cancels > 0
             \/ /\ Has(st.delivered, "C")
                /\ SameBag(NextPayloads(st.delivered), WorkerOutputs(script)))

\* C12 witness: for "echo before", "sleep" the stream has completed with
\* "awake" delivered before "echo before".
C12_Witness ==
    \E s \in Subs :
        /\ script = <<Str("echo before"), Str("sleep")>>
        /\ subs[s].cancels = 0
        /\ Has(subs[s].delivered, "C")
        /\ subs[s].printed = <<"awake", "echo before">>

\* What one consumer must have received, whatever happened to the other:
\* nothing after a terminal event and, its run over and not cancelled, a
\* terminal event after the outputs of the workers called for it.
OwnSequence(st) ==
    LET d == st.delivered
    IN  /\ \A k \in DOMAIN d : IsTerminal(d[k]) => k = Len(d)
        /\ IsPrefix(st.invoked, script)
        /\ \A k \in DOMAIN d :
             d[k].kind = "N" =>
               Count(NextPayloads(d), d[k].val)
                 <= Count(WorkerOutputs(st.invoked), d[k].val)
        /\ (Quiescent(st) /\ st.cancels = 0) =>
             /\ d # <<>>
             /\ IsTerminal(Last(d))
             /\ Last(d) = OnCompleted =>
                  /\ st.invoked = script
                  /\ SameBag(NextPayloads(d), WorkerOutputs(script))

\* C13: two subscriptions to the Observable of process_commands share no
\* state: a step of one (an event, a terminal, a cancellation) leaves the
\* other's state as it was, and each consumer receives its own complete
\* well-formed sequence.
C13_IndependentSubscriptions ==
    /\ [](\A s \in Subs : OwnSequence(subs[s]))
    /\ [][\A s \in Subs : \A u \in Subs \ {s} :
            subs'[s] # subs[s] => subs'[u] = subs[u]]_vars

\* C13 witness: one consumer cancelled before anything was delivered to it,
\* the other received "awake" and Completed.
C13_Witness ==
    \E s \in Subs : \E u \in Subs \ {s} :
        /\ subs[s].cancels > 0
        /\ subs[s].delivered = <<>>
        /\ subs[u].cancels = 0
        /\ subs[u].printed = <<"awake">>
        /\ Has(subs[u].delivered, "C")

\* C14: the worker is called once for each item the source has emitted, in
\* the source's order, and its result is subscribed before the next item is
\* taken: the inner subscriptions, in the order they were made, are the
\* workers' results for the source's items in the source's order, at most
\* the one call in progress (or raised, or overtaken by a cancellation)
\* lacking its subscription.
C14_InvocationOrder ==
    \A s \in Subs :
        LET st == subs[s]
        IN  /\ st.invoked = SubSeq(script, 1, st.srcPos)
            /\ Len(st.inner) <= Len(st.invoked)
            /\ Len(st.inner) >= Len(st.invoked) - 1
            /\ (~st.sleeping /\ ~WorkerRaised(st) /\ st.cancels = 0) =>
                 Len(st.inner) = Len(st.invoked)
            /\ \A i \in DOMAIN st.inner :
                 st.inner[i].of = process_command_timeout(st.invoked[i]).of

\* C14 witness: three inner subscriptions made in the source's order, the
\* last one the first to deliver.
C14_Witness ==
    \E s \in Subs :
        LET st == subs[s]
        IN  /\ st.invoked = ReferenceInput
            /\ Len(st.inner) = 3
            /\ st.printed = <<"echo after">>
            /\ st.inner[1].pos = 0

\* C15: while the worker is blocked in time.sleep for the item at srcPos, no
\* worker has been called and no inner stream exists for any later item; run
\* by the one subscribing thread, nothing at all is delivered before the
\* source's emission, the blocking call included, has ended.
C15_SleepSerializes ==
    \A s \in Subs :
        LET st == subs[s]
        IN  /\ st.sleeping =>
                 /\ st.srcPos >= 1
                 /\ process_command_timeout(script[st.srcPos]).blocks
                 /\ Len(st.invoked) = st.srcPos
                 /\ Len(st.inner) = st.srcPos - 1
            /\ (sched = "current_thread" /\ (st.sleeping \/ ~st.srcStopped)) =>
                 /\ st.delivered = <<>>
                 /\ \A i \in DOMAIN st.inner : st.inner[i].pos = 0

\* C15 witness: the reference run is blocked in the sleep of its second
\* item, "echo before" subscribed and not delivered, "echo after" not taken.
C15_Witness ==
    \E s \in Subs :
        LET st == subs[s]
        IN  /\ sched = "current_thread"
            /\ script = ReferenceInput
            /\ st.sleeping
            /\ st.srcPos = 2
            /\ Len(st.inner) = 1

\* C16: however the completion of the last open inner stream interleaves
\* with the source's emissions and with the two halves of the source's
\* completion, Completed is not delivered while the source can still emit or
\* an item's inner stream is outstanding, is delivered once the source has
\* completed, its look at the group is over and no inner stream is open, and
\* is not delivered twice.
C16_CompletionRace ==
    \A s \in Subs :
        LET st == subs[s]
            d == st.delivered
        IN  /\ Has(d, "C") =>
                 /\ st.is_stopped
                 /\ st.srcStopped
                 /\ Len(st.inner) = Len(script)
                 /\ OpenInner(st) = {}
                 /\ \A i \in DOMAIN st.inner : st.inner[i].st = "completed"
            /\ (st.is_stopped /\ ~st.completing /\ OpenInner(st) = {}
                  /\ st.cancels = 0) => Has(d, "C")
            /\ Count(d, OnCompleted) <= 1
            /\ st.completing => st.is_stopped
            /\ st.is_stopped => st.srcPos = Len(script) /\ ~st.sleeping

\* C16 witness: the last inner stream completed between the two halves of
\* the source's completion and delivered Completed; the source's look at the
\* group is still to come.
C16_Witness ==
    \E s \in Subs :
        LET st == subs[s]
        IN  /\ st.completing
            /\ st.inner # <<>>
            /\ Has(st.delivered, "C")

\* C17: a step in which an inner stream completes removes that stream's
\* handle from the group and leaves the source subscription and every other
\* inner subscription as they were; an open inner subscription is disposed
\* only in a step that invokes the consumer's handle or delivers an Error.
C17_TopDownOnly ==
    [][\A s \in Subs :
         LET st == subs[s]
             st2 == subs'[s]
         IN  \A i \in DOMAIN st.inner :
               /\ (st.inner[i].st = "open" /\ st2.inner[i].st = "completed") =>
                    /\ \A j \in DOMAIN st.inner \ {i} : st2.inner[j] = st.inner[j]
                    /\ Len(st2.inner) = Len(st.inner)
                    /\ st2.srcStopped = st.srcStopped
                    /\ st2.srcPos = st.srcPos
                    /\ st2.sleeping = st.sleeping
                    /\ st2.invoked = st.invoked
                    /\ \/ st2.group = st.group \ {i}
                       \/ /\ st2.delivered = Append(st.delivered, OnCompleted)
                          /\ st.group = {m, i}
                          /\ st.srcStopped
               /\ (st.inner[i].st = "open" /\ st2.inner[i].st = "disposed") =>
                    \/ st2.cancels = st.cancels + 1
                    \/ /\ ~Has(st.delivered, "E")
                       /\ Has(st2.delivered, "E")]_vars

\* C17 witness: an inner stream has completed while a sibling that has not
\* emitted yet is open and the source has more to emit.
C17_Witness ==
    \E s \in Subs :
        LET st == subs[s]
        IN  /\ ~st.srcStopped
            /\ st.srcPos < Len(script)
            /\ \E i \in DOMAIN st.inner : \E j \in DOMAIN st.inner :
                 /\ st.inner[i].st = "completed"
                 /\ st.inner[j].st = "open"
                 /\ st.inner[j].pos = 0
                 /\ j < i

\* The consumer has received Completed or Error, or has invoked its handle.
TornDown(st) ==
    \/ Has(st.delivered, "C")
    \/ Has(st.delivered, "E")
    \/ st.cancels > 0

\* C18: once Completed or Error has been delivered or the consumer's handle
\* has been invoked, no inner subscription and no source subscription is
\* open, the group is empty, and no later step calls the worker or makes an
\* inner subscription.
C18_Teardown ==
    /\ [](\A s \in Subs :
            LET st == subs[s]
            IN  TornDown(st) =>
                  /\ OpenInner(st) = {}
                  /\ st.srcStopped
                  /\ st.obsStopped
                  /\ st.groupDisposed
                  /\ st.group = {})
    /\ [][\A s \in Subs :
            TornDown(subs[s]) =>
              /\ subs'[s].invoked = subs[s].invoked
              /\ Len(subs'[s].inner) = Len(subs[s].inner)
              /\ subs'[s].delivered = subs[s].delivered]_vars

\* C18 witness: the handle was invoked while the worker was blocked; the
\* worker has returned since and its result was not subscribed.
C18_Witness ==
    \E s \in Subs :
        LET st == subs[s]
        IN  /\ st.cancels > 0
            /\ ~st.sleeping
            /\ st.invoked # <<>>
            /\ process_command_timeout(Last(st.invoked)).blocks
            /\ Len(st.inner) = Len(st.invoked) - 1
            /\ st.srcPos < Len(script)

\* The inner subscriptions that have completed or been disposed.
ClosedInner(st) == {i \in DOMAIN st.inner : st.inner[i].st # "open"}

\* C19 as stated: the number of open inner streams is the number of worker
\* invocations made minus the number of inner streams that have terminated
\* or been cancelled.
C19_InvocationsMinusClosed ==
    \A s \in Subs :
        LET st == subs[s]
        IN  Cardinality(OpenInner(st))
              = Len(st.invoked) - Cardinality(ClosedInner(st))

\* C19, amended: the handles the group holds besides the source's are those
\* of the open inner streams; their number is never negative and is the
\* number of worker invocations minus the number of inner streams completed
\* or disposed, not counting an invocation without an inner stream, of which
\* there is at most one: the call in progress, the call that raised, or the
\* call that returned after the handle had been invoked.  Every Next
\* delivered comes from an inner stream that is open and in the group when
\* it delivers.
C19_Bookkeeping ==
    /\ [](\A s \in Subs :
            LET st == subs[s]
                open == Cardinality(OpenInner(st))
                lacking == Len(st.invoked) - Len(st.inner)
            IN  /\ st.phase = "subscribed" =>
                     IF st.groupDisposed
                     THEN st.group = {} /\ OpenInner(st) = {}
                     ELSE st.group = {m} \cup OpenInner(st)
                /\ st.phase = "unsubscribed" => st.group = {} /\ st.inner = <<>>
                /\ open >= 0
                /\ lacking \in {0, 1}
                /\ open = Len(st.invoked) - Cardinality(ClosedInner(st)) - lacking
                /\ lacking = 1 =>
                     \/ st.sleeping
                     \/ process_command_timeout(Last(st.invoked)).raises
                     \/ st.cancels > 0 /\ process_command_timeout(Last(st.invoked)).blocks)
    /\ [][\A s \in Subs :
            LET st == subs[s]
                st2 == subs'[s]
            IN  (st2.delivered # st.delivered /\ Last(st2.delivered).kind = "N") =>
                  \E i \in OpenInner(st) \cap st.group :
                    /\ st.inner[i].pos < Len(st.inner[i].of)
                    /\ st2.inner[i].pos = st.inner[i].pos + 1
                    /\ st2.delivered
                         = Append(st.delivered, OnNext(st.inner[i].of[st2.inner[i].pos]))
                    /\ i \in OpenInner(st2) \cap st2.group]_vars

\* C19 witness: the worker raised for the third item after two inner streams
\* had been subscribed, one of which had delivered: three invocations, two
\* inner streams, both closed, none open.
C19_Witness ==
    \E s \in Subs :
        LET st == subs[s]
        IN  /\ Len(st.invoked) = 3
            /\ process_command_timeout(st.invoked[3]).raises
            /\ Len(st.inner) = 2
            /\ OpenInner(st) = {}
            /\ Len(st.printed) = 1
            /\ Has(st.delivered, "E")

\* C20: the pipeline, built on process_command_timeout, behaves in every
\* state as process_command prescribes for the commands taken: it blocks
\* where process_command blocks, each inner stream holds the values of the
\* Observable process_command returns, each delivered Next is one of them,
\* and an Error is delivered only for the source's own error or for a command
\* on which process_command raises, with that exception.
C20_TimeoutPassThrough ==
    \A s \in Subs :
        LET st == subs[s]
            d == st.delivered
        IN  /\ st.sleeping => process_command(script[st.srcPos]).blocks
            /\ \A i \in DOMAIN st.inner :
                 /\ st.inner[i].of = process_command(st.invoked[i]).of
                 /\ ~process_command(st.invoked[i]).raises
            /\ \A k \in DOMAIN st.invoked :
                 (process_command(st.invoked[k]).blocks /\ st.cancels = 0) =>
                   \/ k \in DOMAIN st.inner
                   \/ k = st.srcPos /\ st.sleeping
            /\ \A k \in DOMAIN d :
                 /\ d[k].kind = "N" =>
                      \E i \in DOMAIN st.inner :
                        <<d[k].val>> = process_command(st.invoked[i]).of
                 /\ d[k].kind = "E" =>
                      \/ d[k].val = "SourceError" /\ srcEnd = "error"
                      \/ \E i \in DOMAIN st.invoked :
                           /\ process_command(st.invoked[i]).raises
                           /\ d[k].val = process_command(st.invoked[i]).err

\* C20 witness: "sleep" was taken through process_command_timeout, blocked,
\* and delivered "awake" and Completed; no Error was delivered.
C20_Witness ==
    \E s \in Subs :
        LET st == subs[s]
        IN  /\ script = <<Str("sleep"), Str("bogus")>>
            /\ st.printed = <<"awake", "Invalid command bogus provided.">>
            /\ Last(st.delivered) = OnCompleted

====
